---- MODULE Spec2Model ----
(***************************************************************************)
(* TAIPO-BIST bot (src/main.py): one stateless process per invocation,     *)
(* driven by an external scheduler.  Each invocation loads state.json,     *)
(* rolls the day over, answers commands, runs the scheduled (AUTO) phase   *)
(* of the current minute and writes state.json back.                       *)
(*                                                                         *)
(* Conventions of the model                                                *)
(*  - wall-clock time is the number of seconds since 00:00 (Istanbul) of   *)
(*    day 0; an invocation reads the clock once;                           *)
(*  - percentages and volume ratios are the source's 2-decimal floats      *)
(*    scaled by 100 (0.40 % is 40);                                        *)
(*  - the empty string "" of the source is the empty tuple << >>, except   *)
(*    for day strings, where it is NoDay;                                  *)
(*  - a rendered message is the record of the values it is formatted from; *)
(*    the movers block, the news block and the fresh quotes, which come    *)
(*    from the network, are the input ext;                                 *)
(*  - of state.json the model keeps the ledger, the phase flags, the dedup *)
(*    records and the command cursor and cooldowns; movers_cache and       *)
(*    news_seen, which only feed the text of a message, are part of ext;   *)
(*  - the picker, the news selection, two overlapping processes and a      *)
(*    damaged state.json each have a specification of their own            *)
(*    (SpecPicker, SpecNews, SpecOverlap, SpecCorrupt) over the same       *)
(*    variables.                                                           *)
(***************************************************************************)
EXTENDS Integers, Sequences, FiniteSets, TLC

\* ------------------------------------------------------------------ bounds
MaxDay == 1
MaxUpdateId == 1
FirstWeekday == 4

\* --------------------------------------------------------------- constants
PICK_COUNT == 3
REPLY_COOLDOWN_SEC == 10
ID_COOLDOWN_SEC == 30
DaySeconds == 86400
NoDay == -1
NoVol == -1

AUTO_BAND_STEPS ==
    << <<40, 90>>, <<40, 100>>, <<40, 120>>, <<30, 120>>,
       <<20, 150>>, <<10, 200>>, <<0, 300>> >>

TRACK_HOURS_TR == {11, 12, 13, 14, 15, 16, 17}
TRACK_MINUTE_TR == 0

Keys == {"err", "open", "pick", "track", "preclose", "close"}

\* ------------------------------------------------------------ input domains
\* minutes of the day at which the scheduler may start a process
\* What the environment does in one behaviour: the <<minute of the day,
\* second>> at which the scheduler starts a process on each day, and how
\* many command updates the chat's users send in all.
Plans ==
    { [starts |-> {<<600, 5>>, <<600, 40>>, <<610, 5>>, <<610, 40>>}, updates |-> 0],
      [starts |-> {<<610, 5>>, <<610, 40>>, <<660, 5>>, <<660, 40>>, <<720, 5>>},
       updates |-> 0],
      [starts |-> {<<610, 5>>, <<1050, 5>>, <<1090, 5>>, <<1090, 40>>, <<1100, 5>>},
       updates |-> 0],
      [starts |-> {<<610, 5>>, <<660, 5>>, <<1090, 5>>}, updates |-> MaxUpdateId] }
TS(d, m, s) == d * DaySeconds + m * 60 + s
TimePoints(pl) == {TS(d, p[1], p[2]) : d \in 0..MaxDay, p \in pl.starts}
Universe == {"A", "B", "C", "D"}
Exts == {"x", "y"}
Modes == {"AUTO", "COMMAND"}
Commands == {"ping", "help", "id", "taipo", "news", "top", "pro", "none"}

Q(sym, price, cp, vr) ==
    [symbol |-> sym, price |-> price, change_pct |-> cp, vol_ratio |-> vr]

\* scan results the quote source may deliver
QuoteScenarios ==
    { << >>,
      << Q("A", 10, 50, 100), Q("B", 20, 80, 200), Q("C", 30, 110, 50),
         Q("D", 40, 60, NoVol) >>,
      << Q("A", 11, 50, 100), Q("B", 21, 250, 200), Q("C", 31, 110, 50),
         Q("D", 41, -20, NoVol) >>,
      << Q("A", 10, 50, 100), Q("B", 20, 80, 200), Q("C", 30, -10, 50) >> }

\* ------------------------------------------------------------- time helpers
today_str_tr(t) == t \div DaySeconds
MinuteOfDay(t) == (t % DaySeconds) \div 60
now_str_tr(t) == <<today_str_tr(t), MinuteOfDay(t)>>
now_key_minute(t) == <<today_str_tr(t), MinuteOfDay(t)>>
Hour(t) == MinuteOfDay(t) \div 60
Minute(t) == MinuteOfDay(t) % 60
\* a week whose Saturday is a trading day
is_weekday_tr_six_days(t) == ((FirstWeekday + today_str_tr(t)) % 7) < 6

is_weekday_tr(t) == ((FirstWeekday + today_str_tr(t)) % 7) < 5

is_open_report_time_now(t) ==
    IF ~is_weekday_tr(t) THEN FALSE ELSE Hour(t) = 10 /\ Minute(t) = 0

is_pick_trigger_time_now(t) ==
    IF ~is_weekday_tr(t) THEN FALSE ELSE Hour(t) = 10 /\ Minute(t) = 10

is_track_time_now(t) ==
    IF ~is_weekday_tr(t) THEN FALSE
    ELSE Hour(t) \in TRACK_HOURS_TR /\ Minute(t) = TRACK_MINUTE_TR

is_preclose_time_now(t) ==
    IF ~is_weekday_tr(t) THEN FALSE ELSE Hour(t) = 17 /\ Minute(t) = 30

is_close_report_time_now(t) ==
    IF ~is_weekday_tr(t) THEN FALSE ELSE Hour(t) = 18 /\ Minute(t) = 10

\* a tracking that does not look at last_track_sent_key
should_send_track_now_always(state, t) == TRUE

should_send_track_now(state, t) == state.last_track_sent_key # now_key_minute(t)

\* ------------------------------------------------------------------- picker
rank_score(q) ==
    (IF q.vol_ratio = NoVol THEN 0 ELSE q.vol_ratio) * 10 + q.change_pct

\* a sort that puts a quote before the earlier quotes of its rank
RECURSIVE InsertDesc_unstable(_, _)
InsertDesc_unstable(q, sorted) ==
    IF sorted = << >> THEN <<q>>
    ELSE IF rank_score(Head(sorted)) > rank_score(q)
         THEN <<Head(sorted)>> \o InsertDesc_unstable(q, Tail(sorted))
         ELSE <<q>> \o sorted

\* sorted(pool, key=_rank_score, reverse=True): stable, equal ranks keep
\* their input order
RECURSIVE InsertDesc(_, _)
InsertDesc(q, sorted) ==
    IF sorted = << >> THEN <<q>>
    ELSE IF rank_score(Head(sorted)) >= rank_score(q)
         THEN <<Head(sorted)>> \o InsertDesc(q, Tail(sorted))
         ELSE <<q>> \o sorted

RECURSIVE SortedDesc(_)
SortedDesc(pool) ==
    IF pool = << >> THEN << >>
    ELSE InsertDesc(pool[Len(pool)], SortedDesc(SubSeq(pool, 1, Len(pool) - 1)))

\* a slice that keeps the whole pool
Take_whole(s, n) == s

Take(s, n) == SubSeq(s, 1, IF Len(s) < n THEN Len(s) ELSE n)

\* a band that leaves its upper edge out
InBand_open(q, lo, hi) == lo <= q.change_pct /\ q.change_pct < hi

InBand(q, lo, hi) == lo <= q.change_pct /\ q.change_pct <= hi

\* a fallback that settles for fewer than n quotes
fallback_step_partial(quotes_pos, n) ==
    LET IsFb(q) == InBand(q, 0, 300)
        fallback == Take(SortedDesc(SelectSeq(quotes_pos, IsFb)), n)
    IN  IF Len(fallback) >= 1
        THEN [picks |-> fallback, band |-> <<0, 300>>]
        ELSE [picks |-> << >>, band |-> << >>]

\* lines 542-547: the fixed fallback band after the loop over the bands
fallback_step(quotes_pos, n) ==
    LET IsFb(q) == InBand(q, 0, 300)
        fallback == Take(SortedDesc(SelectSeq(quotes_pos, IsFb)), n)
    IN  IF Len(fallback) = n
        THEN [picks |-> fallback, band |-> <<0, 300>>]
        ELSE [picks |-> << >>, band |-> << >>]

\* a scan that stops at a band only when its pool exceeds n
RECURSIVE BandScan_wants_more(_, _, _)
BandScan_wants_more(quotes_pos, n, i) ==
    IF i > Len(AUTO_BAND_STEPS)
    THEN LET IsFb(q) == InBand(q, 0, 300)
             fallback == Take(SortedDesc(SelectSeq(quotes_pos, IsFb)), n)
         IN  IF Len(fallback) = n
             THEN [picks |-> fallback, band |-> <<0, 300>>]
             ELSE [picks |-> << >>, band |-> << >>]
    ELSE LET lo == AUTO_BAND_STEPS[i][1]
             hi == AUTO_BAND_STEPS[i][2]
             IsIn(q) == InBand(q, lo, hi)
             pool_sorted == SortedDesc(SelectSeq(quotes_pos, IsIn))
         IN  IF Len(pool_sorted) > n
             THEN [picks |-> Take(pool_sorted, n), band |-> <<lo, hi>>]
             ELSE BandScan_wants_more(quotes_pos, n, i + 1)

RECURSIVE BandScan(_, _, _)
BandScan(quotes_pos, n, i) ==
    IF i > Len(AUTO_BAND_STEPS)
    THEN fallback_step(quotes_pos, n)
    ELSE LET lo == AUTO_BAND_STEPS[i][1]
             hi == AUTO_BAND_STEPS[i][2]
             IsIn(q) == InBand(q, lo, hi)
             pool_sorted == SortedDesc(SelectSeq(quotes_pos, IsIn))
         IN  IF Len(pool_sorted) >= n /\ pool_sorted # << >>
             THEN [picks |-> Take(pool_sorted, n), band |-> <<lo, hi>>]
             ELSE BandScan(quotes_pos, n, i + 1)

pick_breakouts_with_auto_band(quotes, n) ==
    LET IsPos(q) == q.change_pct > 0
    IN  BandScan(SelectSeq(quotes, IsPos), n, 1)

\* ------------------------------------------------------------------- state
VARIABLES
    now,        \* wall clock read by the running process
    pc,         \* position of the process inside main()
    mode,       \* MODE of the running process
    hashSeed,   \* the running interpreter's string-hash secret
    hashRandomized, \* whether the deployment leaves PYTHONHASHSEED unset
    symbolsFile, \* the symbols bist100.txt holds
    plan,       \* the environment's plan of this behaviour
    state,      \* the process's in-memory state dict
    file,       \* state.json
    lastCall,   \* observation: the send_auto_deduped call of this invocation
    lastOk,     \* observation: per key, the text and time of the last delivery
    lastFail,   \* observation: key and text of the latest call, if its send failed
    eodDelivered, \* observation: EOD notifications delivered on the current day
    seen,       \* observation: the phases a periodic driver found active
    disk,       \* what the bytes of state.json are: "ok", "unparseable", "not_object"
    handled,    \* observation: per update id, the invocations that handled it
    other,      \* a second process started while the first one runs
    probe       \* the arguments and the result of a function applied on its own

deployment == <<hashRandomized, symbolsFile, plan>>
observed == <<lastCall, lastOk, lastFail, eodDelivered>>
aside == <<other, probe>>
vars == <<now, pc, mode, hashSeed, deployment, state, file, observed, seen, disk,
          handled, aside>>

EmptyWatch ==
    [symbols |-> << >>, baseline |-> << >>, picked_at |-> << >>, band_used |-> << >>]

NoRec == [ts |-> 0, hash |-> << >>]

\* the snapshot ensure_files writes when state.json does not exist
InitialState ==
    [last_update_id |-> 0,
     last_command_reply_ts |-> 0,
     last_id_reply_ts |-> 0,
     day |-> NoDay,
     watch |-> EmptyWatch,
     sent_pick_message |-> FALSE,
     last_track_sent_key |-> << >>,
     eod_sent_day |-> NoDay,
     last_auto_sent |-> [k \in Keys |-> NoRec]]

\* the dict {} that load_json is given as its default, as the program reads
\* it: get("last_update_id", 0) and the two cooldown stamps read 0,
\* get("day") reads None, which is no day; ensure_today_state adds
\* eod_sent_day and last_auto_sent (lines 273-276) and, the day being another,
\* writes the remaining keys before anything reads them
EmptyDict ==
    [last_update_id |-> 0,
     last_command_reply_ts |-> 0,
     last_id_reply_ts |-> 0,
     day |-> NoDay,
     watch |-> EmptyWatch,
     sent_pick_message |-> FALSE,
     last_track_sent_key |-> << >>,
     eod_sent_day |-> NoDay,
     last_auto_sent |-> [k \in Keys |-> NoRec]]

\* a JSON value that is not an object (a list, a number, a string, null)
NotADict == [json |-> "not an object"]

\* load_json(path, default): json.load's value, or default when open or
\* json.load raises; status says what the bytes of the file are
load_json(content, status, default) ==
    IF status = "unparseable" THEN default
    ELSE IF status = "not_object" THEN NotADict
    ELSE content

\* str(abs(hash(s))): CPython's string hash is keyed by the interpreter's
\* secret, so equal texts hash equal exactly under equal secrets (the hash
\* is taken to be free of collisions)
hash_text(s, seed) == <<seed, s>>

Call(key, text, cooldown_sec, invoked, ok) ==
    [key |-> key, text |-> text, cooldown |-> cooldown_sec, invoked |-> invoked, ok |-> ok]

NoCall == Call("", << >>, 0, FALSE, FALSE)

\* a send_auto_deduped that records the send whatever the transport says
send_auto_deduped_records_failure(st, key, text, cooldown_sec, t, seed, ok) ==
    LET h == hash_text(text, seed)
        prev == st.last_auto_sent[key]
    IN  IF prev.hash = h /\ (t - prev.ts) < cooldown_sec
        THEN [state |-> st, call |-> Call(key, text, cooldown_sec, FALSE, FALSE)]
        ELSE [state |-> [st EXCEPT !.last_auto_sent[key] = [ts |-> t, hash |-> h]],
              call |-> Call(key, text, cooldown_sec, TRUE, ok)]

\* send_auto_deduped: the new state and what happened on the transport;
\* ok is the outcome send_message has if it is called
send_auto_deduped(st, key, text, cooldown_sec, t, seed, ok) ==
    LET now_ts == t
        h == hash_text(text, seed)
        prev == st.last_auto_sent[key]
        prev_ts == prev.ts
        prev_h == prev.hash
    IN  IF prev_h = h /\ (now_ts - prev_ts) < cooldown_sec
        THEN [state |-> st, call |-> Call(key, text, cooldown_sec, FALSE, FALSE)]
        ELSE [state |-> IF ok
                        THEN [st EXCEPT !.last_auto_sent[key] = [ts |-> now_ts, hash |-> h]]
                        ELSE st,
              call |-> Call(key, text, cooldown_sec, TRUE, ok)]

ResetDay(st, t) ==
    [st EXCEPT !.day = today_str_tr(t),
               !.watch = EmptyWatch,
               !.sent_pick_message = FALSE,
               !.last_track_sent_key = << >>,
               !.eod_sent_day = NoDay,
               !.last_auto_sent = [k \in Keys |-> NoRec]]

\* an ensure_today_state that resets the day's fields on every invocation
ensure_today_state_always_resets(st, t) == ResetDay(st, t)

\* an ensure_today_state that moves the date and keeps the ledger
ensure_today_state_keeps_ledger(st, t) ==
    IF st.day # today_str_tr(t) THEN [st EXCEPT !.day = today_str_tr(t)] ELSE st

ensure_today_state(st, t) ==
    IF st.day # today_str_tr(t) THEN ResetDay(st, t) ELSE st

\* ------------------------------------------------------------ message texts
Text(kind, t, body, ext) ==
    [kind |-> kind, stamp |-> now_str_tr(t), body |-> body, ext |-> ext]

build_err_message(t) == Text("err", t, << >>, "")
build_open_message(t, ext) == Text("open", t, << >>, ext)
build_pick_message(picks, picked_at, band_used, t, ext) ==
    Text("pick", t, <<picks, picked_at, band_used>>, ext)
build_track_message(st, title, t, ext) ==
    Text(title, t, <<st.watch.picked_at, st.watch.band_used, st.watch.symbols,
                     st.watch.baseline>>, ext)
build_close_message(st, t, ext) ==
    Text("close", t, <<st.watch.picked_at, st.watch.symbols, st.watch.baseline>>, ext)

\* ---------------------------------------------------------------- core logic
NoPick(st) == [state |-> st, picks |-> << >>, band |-> << >>]

\* lines 815-832 of try_pick_once: scan, pick and record the watch list
PickAndRecord(st, quotes, t) ==
    IF quotes = << >> THEN NoPick(st)
    ELSE LET r == pick_breakouts_with_auto_band(quotes, PICK_COUNT)
         IN  IF r.band = << >> \/ Len(r.picks) < PICK_COUNT
             THEN NoPick(st)
             ELSE [state |->
                      [st EXCEPT
                         !.watch = [symbols |-> [i \in 1..Len(r.picks) |-> r.picks[i].symbol],
                                    baseline |-> [i \in 1..Len(r.picks) |->
                                                     <<r.picks[i].symbol, r.picks[i].price>>],
                                    picked_at |-> now_str_tr(t),
                                    band_used |-> r.band],
                         !.sent_pick_message = TRUE],
                   picks |-> r.picks, band |-> r.band]

\* a try_pick_once without the sent_pick_message guard
try_pick_once_unguarded(st, symbols, quotes, t) ==
    IF ~is_pick_trigger_time_now(t) THEN NoPick(st) ELSE PickAndRecord(st, quotes, t)

\* a try_pick_once that marks the pick as done when it finds no basket
try_pick_once_marks_empty(st, symbols, quotes, t) ==
    IF st.sent_pick_message THEN NoPick(st)
    ELSE IF ~is_pick_trigger_time_now(t) THEN NoPick(st)
    ELSE LET r == PickAndRecord(st, quotes, t)
         IN  [r EXCEPT !.state.sent_pick_message = TRUE]

try_pick_once(st, symbols, quotes, t) ==
    IF st.sent_pick_message THEN NoPick(st)
    ELSE IF ~is_pick_trigger_time_now(t) THEN NoPick(st)
    ELSE PickAndRecord(st, quotes, t)

\* run_auto: symbols is what load_symbols returns, quotes what the bulk scan
\* returns if it is made, ext the network content of the message, ok the
\* transport's outcome if it is called
run_auto(st, symbols, quotes, ext, ok, t, seed) ==
    IF symbols = {}
    THEN send_auto_deduped(st, "err", build_err_message(t), 300, t, seed, ok)
    ELSE IF is_open_report_time_now(t)
    THEN send_auto_deduped(st, "open", build_open_message(t, ext), 1800, t, seed, ok)
    ELSE LET p == try_pick_once(st, symbols, quotes, t)
         IN  IF p.picks # << >>
             THEN send_auto_deduped(p.state, "pick",
                      build_pick_message(p.picks, p.state.watch.picked_at, p.band, t, ext),
                      1800, t, seed, ok)
             ELSE IF is_track_time_now(t)
             THEN IF p.state.watch.symbols # << >> /\ should_send_track_now(p.state, t)
                  THEN LET r == send_auto_deduped(p.state, "track",
                                    build_track_message(p.state, "track", t, ext),
                                    1500, t, seed, ok)
                       IN  [r EXCEPT !.state.last_track_sent_key = now_key_minute(t)]
                  ELSE [state |-> p.state, call |-> NoCall]
             ELSE IF is_preclose_time_now(t)
             THEN send_auto_deduped(p.state, "preclose",
                      build_track_message(p.state, "preclose", t, ext), 1800, t, seed, ok)
             ELSE IF is_close_report_time_now(t)
             THEN IF p.state.eod_sent_day = today_str_tr(t)
                  THEN [state |-> p.state, call |-> NoCall]
                  ELSE LET r == send_auto_deduped(p.state, "close",
                                    build_close_message(p.state, t, ext), 1800, t, seed, ok)
                       IN  [r EXCEPT !.state.eod_sent_day = today_str_tr(t)]
             ELSE [state |-> p.state, call |-> NoCall]

\* run_auto statement by statement.  Flow is where the function body stands:
\* the state so far, the send_auto_deduped calls made so far, and whether a
\* return statement has been executed.
\* a branch that does not end in a return statement
Return_falls_through(f, r) ==
    [state |-> r.state,
     calls |-> IF r.call.key = "" THEN f.calls ELSE Append(f.calls, r.call),
     returned |-> FALSE]

\* the end of a branch: its send_auto_deduped call, if it made one, and
\* "return state"
Return(f, r) ==
    [state |-> r.state,
     calls |-> IF r.call.key = "" THEN f.calls ELSE Append(f.calls, r.call),
     returned |-> TRUE]

\* the if statements of run_auto in the order of the source, each one
\* executed only if no return statement was executed before it
run_auto_statements(st, symbols, quotes, ext, ok, t, seed) ==
    LET Start == [state |-> st, calls |-> << >>, returned |-> FALSE]
        Silent(f) == [state |-> f.state, call |-> NoCall]
        Err(f) ==
            IF f.returned \/ symbols # {} THEN f
            ELSE Return(f, send_auto_deduped(f.state, "err", build_err_message(t),
                                             300, t, seed, ok))
        Open(f) ==
            IF f.returned \/ ~is_open_report_time_now(t) THEN f
            ELSE Return(f, send_auto_deduped(f.state, "open", build_open_message(t, ext),
                                             1800, t, seed, ok))
        Pick(f) ==
            IF f.returned THEN f
            ELSE LET p == try_pick_once(f.state, symbols, quotes, t)
                 IN  IF p.picks = << >> THEN [f EXCEPT !.state = p.state]
                     ELSE Return(f, send_auto_deduped(p.state, "pick",
                                        build_pick_message(p.picks, p.state.watch.picked_at,
                                                           p.band, t, ext),
                                        1800, t, seed, ok))
        Track(f) ==
            IF f.returned \/ ~is_track_time_now(t) THEN f
            ELSE IF f.state.watch.symbols # << >> /\ should_send_track_now(f.state, t)
            THEN LET r == send_auto_deduped(f.state, "track",
                              build_track_message(f.state, "track", t, ext),
                              1500, t, seed, ok)
                 IN  Return(f, [r EXCEPT !.state.last_track_sent_key = now_key_minute(t)])
            ELSE Return(f, Silent(f))
        Preclose(f) ==
            IF f.returned \/ ~is_preclose_time_now(t) THEN f
            ELSE Return(f, send_auto_deduped(f.state, "preclose",
                               build_track_message(f.state, "preclose", t, ext),
                               1800, t, seed, ok))
        Close(f) ==
            IF f.returned \/ ~is_close_report_time_now(t) THEN f
            ELSE IF f.state.eod_sent_day = today_str_tr(t) THEN Return(f, Silent(f))
            ELSE LET r == send_auto_deduped(f.state, "close",
                              build_close_message(f.state, t, ext), 1800, t, seed, ok)
                 IN  Return(f, [r EXCEPT !.state.eod_sent_day = today_str_tr(t)])
    IN  CHOOSE f6 \in
            { Close(f5) : f5 \in
                { Preclose(f4) : f4 \in
                    { Track(f3) : f3 \in
                        { Pick(f2) : f2 \in
                            { Open(f1) : f1 \in {Err(Start)} } } } } } : TRUE

\* ----------------------------------------------------------------- commands
\* a /taipo reply that reopens the day's pick
handle_update_reopens_pick(st, upd, t) ==
    IF upd.cmd \in {"none", "ping", "help"} THEN st
    ELSE IF upd.cmd = "id"
    THEN IF t - st.last_id_reply_ts >= ID_COOLDOWN_SEC
         THEN [st EXCEPT !.last_id_reply_ts = t]
         ELSE st
    ELSE IF t - st.last_command_reply_ts < REPLY_COOLDOWN_SEC
         THEN st
         ELSE [st EXCEPT !.last_command_reply_ts = t, !.sent_pick_message = FALSE]

\* a /taipo reply that does not write last_command_reply_ts
handle_update_keeps_stamp(st, upd, t) ==
    IF upd.cmd \in {"none", "ping", "help"} THEN st
    ELSE IF upd.cmd = "id"
    THEN IF t - st.last_id_reply_ts >= ID_COOLDOWN_SEC
         THEN [st EXCEPT !.last_id_reply_ts = t]
         ELSE st
    ELSE st

handle_update(st, upd, t) ==
    IF upd.cmd \in {"none", "ping", "help"} THEN st
    ELSE IF upd.cmd = "id"
    THEN IF t - st.last_id_reply_ts >= ID_COOLDOWN_SEC
         THEN [st EXCEPT !.last_id_reply_ts = t]
         ELSE st
    ELSE IF t - st.last_command_reply_ts < REPLY_COOLDOWN_SEC
         THEN st
         ELSE [st EXCEPT !.last_command_reply_ts = t]

RECURSIVE handle_updates(_, _, _)
handle_updates(st, updates, t) ==
    IF updates = << >> THEN st
    ELSE handle_updates(handle_update(st, Head(updates), t), Tail(updates), t)

Max(a, b) == IF a >= b THEN a ELSE b

RECURSIVE max_uid(_, _)
max_uid(m, updates) ==
    IF updates = << >> THEN m
    ELSE max_uid(Max(m, Head(updates).update_id), Tail(updates))

\* a listener that does not write the cursor back
run_command_listener_keeps_cursor(st, updates, t) == handle_updates(st, updates, t)

run_command_listener(st, updates, t) ==
    [handle_updates(st, updates, t) EXCEPT
        !.last_update_id = max_uid(st.last_update_id, updates)]

\* get_updates(offset): the pending updates, numbered from offset on, of
\* which the users send no more than last in all
Batches(offset, last) ==
    UNION { { [i \in 1..k |-> [update_id |-> offset + i - 1, cmd |-> c[i]]] :
              c \in [1..k -> Commands] } :
            k \in 0..(last + 1 - offset) }

\* ------------------------------------------------------------------ actions
\* no update has been handled, no second process runs, no function is probed
NoneHandled == [u \in 1..MaxUpdateId |-> 0]
NoProcess ==
    [pc |-> "none", state |-> InitialState, now |-> 0, seed |-> 0, call |-> NoCall,
     twice |-> FALSE]
NoProbe == [fn |-> "none"]

NoObs ==
    [key |-> "", text |-> << >>, cooldown |-> 0, invoked |-> FALSE, ok |-> FALSE,
     prev |-> NoRec, dup |-> FALSE, differs |-> FALSE, same |-> FALSE, retry |-> FALSE]

\* what an observer who remembers the deliveries sees of the call c, made
\* from the in-memory state st
Observe(c, st) ==
    IF c.key = "" THEN NoObs
    ELSE LET prior == lastOk[c.key]
             same == prior # << >> /\ prior[1] = c.text
         IN  [key |-> c.key, text |-> c.text, cooldown |-> c.cooldown,
              invoked |-> c.invoked, ok |-> c.ok,
              prev |-> st.last_auto_sent[c.key],
              same |-> same,
              dup |-> same /\ now - prior[2] < c.cooldown,
              differs |-> prior # << >> /\ prior[1] # c.text,
              retry |-> lastFail = <<c.key, c.text>>]

Init ==
    /\ now = 0
    /\ pc = "idle"
    /\ mode = "AUTO"
    /\ hashSeed = 0
    /\ hashRandomized \in BOOLEAN
    /\ symbolsFile \in {{}, Universe}
    /\ plan \in Plans
    /\ state = InitialState
    /\ file = InitialState
    /\ lastCall = NoObs
    /\ lastOk = [k \in Keys |-> << >>]
    /\ lastFail = << >>
    /\ eodDelivered = 0
    /\ seen = {}
    /\ disk = "ok"
    /\ handled = NoneHandled
    /\ other = NoProcess
    /\ probe = NoProbe

\* the scheduler starts a process: main() up to load_json.  A process whose
\* hash secret is random gets one no earlier process had.
Invoke ==
    /\ pc \in {"idle", "crashed"}
    /\ \E t \in TimePoints(plan) :
          /\ t > now
          /\ now' = t
          /\ hashSeed' = IF hashRandomized THEN t ELSE 0
          /\ IF today_str_tr(t) = today_str_tr(now)
             THEN UNCHANGED <<lastOk, lastFail, eodDelivered>>
             ELSE /\ lastOk' = [k \in Keys |-> << >>]
                  /\ lastFail' = << >>
                  /\ eodDelivered' = 0
    /\ mode' \in Modes
    /\ state' = load_json(file, disk, EmptyDict)
    /\ pc' = "loaded"
    /\ UNCHANGED <<deployment, file, lastCall, seen, disk, handled, aside>>

\* ensure_today_state; on a value that is not a dict its first statements
\* ("key not in state", state[key] = ...) raise TypeError, which nothing
\* catches: the process ends without saving
EnsureTodayState ==
    /\ pc = "loaded"
    /\ IF state = NotADict
       THEN pc' = "crashed" /\ UNCHANGED state
       ELSE pc' = "listen" /\ state' = ensure_today_state(state, now)
    /\ UNCHANGED <<now, mode, hashSeed, deployment, file, observed, seen, disk,
                   handled, aside>>

RunCommandListener ==
    /\ pc = "listen"
    /\ \E updates \in Batches(state.last_update_id + 1, plan.updates) :
          /\ state' = run_command_listener(state, updates, now)
          /\ handled' = [u \in DOMAIN handled |->
                            IF \E i \in 1..Len(updates) : updates[i].update_id = u
                            THEN handled[u] + 1 ELSE handled[u]]
    /\ pc' = IF mode = "COMMAND" THEN "save" ELSE "auto"
    /\ UNCHANGED <<now, mode, hashSeed, deployment, file, observed, seen, disk, aside>>

RunAuto ==
    /\ pc = "auto"
    /\ \E quotes \in QuoteScenarios, ext \in Exts, ok \in BOOLEAN :
          LET r == run_auto(state, symbolsFile, quotes, ext, ok, now, hashSeed)
              c == r.call
          IN  /\ state' = r.state
              /\ lastCall' = Observe(c, state)
              /\ lastOk' = IF c.invoked /\ c.ok
                           THEN [lastOk EXCEPT ![c.key] = <<c.text, now>>]
                           ELSE lastOk
              /\ lastFail' = IF c.key = "" THEN lastFail
                             ELSE IF c.invoked /\ ~c.ok THEN <<c.key, c.text>> ELSE << >>
              /\ eodDelivered' = IF c.key = "close" /\ c.invoked /\ c.ok
                                 THEN eodDelivered + 1 ELSE eodDelivered
    /\ pc' = "save"
    /\ UNCHANGED <<now, mode, hashSeed, deployment, file, seen, disk, handled, aside>>

SaveState ==
    /\ pc = "save"
    /\ file' = state
    /\ disk' = "ok"
    /\ lastCall' = NoObs
    /\ pc' = "idle"
    /\ UNCHANGED <<now, mode, hashSeed, deployment, state, lastOk, lastFail,
                   eodDelivered, seen, handled, aside>>

Next == Invoke \/ EnsureTodayState \/ RunCommandListener \/ RunAuto \/ SaveState

Spec == Init /\ [][Next]_vars

\* ------------------------------------------------- the five-minute driver
\* A scheduler that starts the process every DriverPeriod seconds, from an
\* arbitrary offset, through day 0; each start evaluates the window
\* predicates at its clock reading.
DriverPeriod == 5 * 60
DriverOffsets == {15 * k : k \in 0..19}

Phases ==
    {<<"open">>, <<"pick">>, <<"preclose">>, <<"eod">>} \cup {<<"track", h>> : h \in TRACK_HOURS_TR}

ActivePhases(t) ==
    (IF is_open_report_time_now(t) THEN {<<"open">>} ELSE {})
    \cup (IF is_pick_trigger_time_now(t) THEN {<<"pick">>} ELSE {})
    \cup (IF is_track_time_now(t) THEN {<<"track", Hour(t)>>} ELSE {})
    \cup (IF is_preclose_time_now(t) THEN {<<"preclose">>} ELSE {})
    \cup (IF is_close_report_time_now(t) THEN {<<"eod">>} ELSE {})

DriverInit ==
    /\ now \in DriverOffsets
    /\ pc = "idle"
    /\ mode = "AUTO"
    /\ hashSeed = 0
    /\ hashRandomized = FALSE
    /\ symbolsFile = Universe
    /\ plan = [starts |-> {}, updates |-> 0]
    /\ state = InitialState
    /\ file = InitialState
    /\ lastCall = NoObs
    /\ lastOk = [k \in Keys |-> << >>]
    /\ lastFail = << >>
    /\ eodDelivered = 0
    /\ seen = ActivePhases(now)
    /\ disk = "ok"
    /\ handled = NoneHandled
    /\ other = NoProcess
    /\ probe = NoProbe

DriverTick ==
    /\ now + DriverPeriod < DaySeconds
    /\ now' = now + DriverPeriod
    /\ seen' = seen \cup ActivePhases(now')
    /\ UNCHANGED <<pc, mode, hashSeed, deployment, state, file, observed, disk,
                   handled, aside>>

DriverDayOver == now + DriverPeriod >= DaySeconds

SpecDriver == DriverInit /\ [][DriverTick]_vars

\* ---------------------------------------------------- the picker on its own
\* pick_breakouts_with_auto_band and try_pick_once applied to every scan
\* result of up to MaxQuotes quotes, with every basket size up to MaxN.
MaxQuotes == 4
MaxN == 3

\* <<change_pct, vol_ratio>> of a quote: inside the narrowest band, inside a
\* wider one, on the edge of the widest, not positive, and two of equal rank
\* (0.50 with 1.00 and 0.60 with 0.99: 10.50)
QuoteKinds ==
    { <<50, 100>>, <<80, 200>>, <<110, 50>>, <<60, 99>>, <<0, 100>>, <<300, NoVol>> }

Ticker(i) == <<"A", "B", "C", "D", "E", "F">>[i]

\* one quote per symbol, in the order of the symbol file
QuoteLists ==
    UNION { { [i \in 1..k |-> Q(Ticker(i), 10 * i, f[i][1], f[i][2])] :
              f \in [1..k -> QuoteKinds] } :
            k \in 0..MaxQuotes }

FirstTradingDay ==
    CHOOSE d \in 0..6 :
        /\ is_weekday_tr(TS(d, 0, 0))
        /\ \A e \in 0..(d - 1) : ~is_weekday_tr(TS(e, 0, 0))

ProcessAtRest ==
    /\ pc = "idle"
    /\ mode = "AUTO"
    /\ hashSeed = 0
    /\ hashRandomized = FALSE
    /\ symbolsFile = Universe
    /\ plan = [starts |-> {}, updates |-> 0]
    /\ state = InitialState
    /\ file = InitialState
    /\ lastCall = NoObs
    /\ lastOk = [k \in Keys |-> << >>]
    /\ lastFail = << >>
    /\ eodDelivered = 0
    /\ seen = {}
    /\ disk = "ok"
    /\ handled = NoneHandled
    /\ other = NoProcess

PickerArgs(quotes, n) ==
    [fn |-> "args", quotes |-> quotes, n |-> n, picks |-> << >>, band |-> << >>]

PickerInit ==
    /\ ProcessAtRest
    /\ now = TS(FirstTradingDay, 610, 5)
    /\ \E quotes \in QuoteLists, n \in 1..MaxN : probe = PickerArgs(quotes, n)

\* picks, band = pick_breakouts_with_auto_band(quotes, n)
PickerApply ==
    /\ probe.fn = "args"
    /\ LET r == pick_breakouts_with_auto_band(probe.quotes, probe.n)
       IN  probe' = [probe EXCEPT !.fn = "picked", !.picks = r.picks, !.band = r.band]
    /\ UNCHANGED <<now, pc, mode, hashSeed, deployment, state, file, observed, seen,
                   disk, handled, other>>

\* state, picks, band = try_pick_once(state, symbols), the scan returning quotes
TryPickApply ==
    /\ probe.fn = "args"
    /\ probe.n = PICK_COUNT
    /\ LET r == try_pick_once(state, symbolsFile, probe.quotes, now)
       IN  /\ state' = r.state
           /\ probe' = [probe EXCEPT !.fn = "tried", !.picks = r.picks, !.band = r.band]
    /\ UNCHANGED <<now, pc, mode, hashSeed, deployment, file, observed, seen, disk,
                   handled, other>>

PickerNext == PickerApply \/ TryPickApply

SpecPicker == PickerInit /\ [][PickerNext]_vars

\* ------------------------------------------------------- news on its own
\* pick_new_news_for_message applied, call after call, to the news_seen map
\* it returned, as append_news_to_text does with state[NEWS_STATE_KEY] from
\* one invocation to the next.
MaxNewsCalls == 4
NEWS_MAX_ITEMS == 3
NEWS_RETENTION_SEC == 7 * 24 * 3600
NoTime == -1

\* a title is its words and its casing; lower() forgets the casing
Words == {"a", "b", "c", "d"}
title_lower(title) == <<title[1], 0>>

\* what fetch_bist_news_items may return: titles that differ in lower case
Feeds ==
    { << >>,
      << <<"a", 0>>, <<"b", 0>>, <<"c", 0>>, <<"d", 0>> >>,
      << <<"a", 1>>, <<"d", 0>> >>,
      << <<"d", 1>>, <<"c", 0>> >> }

\* the seconds between two calls
NewsGaps == {600, 3 * DaySeconds, 4 * DaySeconds}

\* a picker whose seen map is keyed by the title as written
pick_new_news_for_message_exact_title(seen_map, items, max_items, now_ts) ==
    LET cutoff == now_ts - NEWS_RETENTION_SEC
        kept == [k \in {j \in DOMAIN seen_map : seen_map[j] >= cutoff} |-> seen_map[k]]
        IsNew(it) == it \notin DOMAIN kept
        selected == Take(SelectSeq(items, IsNew), max_items)
        keys == {selected[i] : i \in 1..Len(selected)}
    IN  [seen |-> [k \in DOMAIN kept \cup keys |-> IF k \in keys THEN now_ts ELSE kept[k]],
         selected |-> selected]

pick_new_news_for_message(seen_map, items, max_items, now_ts) ==
    LET cutoff == now_ts - NEWS_RETENTION_SEC
        kept == [k \in {j \in DOMAIN seen_map : seen_map[j] >= cutoff} |-> seen_map[k]]
        IsNew(it) == title_lower(it) \notin DOMAIN kept
        selected == Take(SelectSeq(items, IsNew), max_items)
        keys == {title_lower(selected[i]) : i \in 1..Len(selected)}
    IN  [seen |-> [k \in DOMAIN kept \cup keys |-> IF k \in keys THEN now_ts ELSE kept[k]],
         selected |-> selected]

NewsInit ==
    /\ ProcessAtRest
    /\ now = 0
    /\ probe = [fn |-> "news", calls |-> 0, seen |-> << >>, items |-> << >>,
                selected |-> << >>,
                prev |-> [w \in Words |-> NoTime],
                picked |-> [w \in Words |-> NoTime]]

\* state, selected = pick_new_news_for_message(state, items, NEWS_MAX_ITEMS);
\* picked remembers when each lower-cased title was last selected, prev what
\* picked was before the call
NewsCall ==
    /\ probe.fn = "news"
    /\ probe.calls < MaxNewsCalls
    /\ \E gap \in NewsGaps, items \in Feeds :
       \E r \in {pick_new_news_for_message(probe.seen, items, NEWS_MAX_ITEMS, now + gap)} :
          /\ now' = now + gap
          /\ probe' = [fn |-> "news", calls |-> probe.calls + 1, seen |-> r.seen,
                       items |-> items, selected |-> r.selected,
                       prev |-> probe.picked,
                       picked |-> [w \in Words |->
                                     IF \E i \in 1..Len(r.selected) : r.selected[i][1] = w
                                     THEN now + gap ELSE probe.picked[w]]]
    /\ UNCHANGED <<pc, mode, hashSeed, deployment, state, file, observed, seen, disk,
                   handled, other>>

SpecNews == NewsInit /\ [][NewsCall]_vars

\* ------------------------------------------------- overlapping invocations
\* During one invocation of a behaviour the scheduler starts a second AUTO
\* process while the first one is between its load_json and its save_json.
\* Nothing but state.json, read once at the start and written once at the
\* end, is shared; there is no lock.
OverlapPlan == [starts |-> {<<610, 5>>, <<660, 5>>, <<1090, 5>>}, updates |-> 0]

PhaseKeys == {"pick", "track", "close"}

SameWindow(t1, t2) == now_key_minute(t1) = now_key_minute(t2)

Delivered(c) == c.key \in PhaseKeys /\ c.invoked /\ c.ok

OverlapInit ==
    /\ now = 0
    /\ pc = "idle"
    /\ mode = "AUTO"
    /\ hashSeed = 0
    /\ hashRandomized \in BOOLEAN
    /\ symbolsFile = Universe
    /\ plan = OverlapPlan
    /\ state = InitialState
    /\ file = InitialState
    /\ lastCall = NoObs
    /\ lastOk = [k \in Keys |-> << >>]
    /\ lastFail = << >>
    /\ eodDelivered = 0
    /\ seen = {}
    /\ disk = "ok"
    /\ handled = NoneHandled
    /\ other = NoProcess
    /\ probe = NoProbe

\* the first process starts when no other process is running
FirstInvoke == Invoke /\ other.pc \in {"none", "done"}

\* main() of the second process up to load_json, one second after the first
\* process read its clock
OtherLoad ==
    /\ pc \in {"loaded", "listen", "auto", "save"}
    /\ other.pc = "none"
    /\ other' = [pc |-> "loaded", state |-> load_json(file, disk, EmptyDict),
                 now |-> now + 1,
                 seed |-> IF hashRandomized THEN now + 1 ELSE 0,
                 call |-> NoCall, twice |-> FALSE]
    /\ UNCHANGED <<now, pc, mode, hashSeed, deployment, state, file, observed, seen,
                   disk, handled, probe>>

\* ensure_today_state, run_command_listener (no update is pending) and
\* run_auto of the second process: they touch its own memory and the transport
OtherRun ==
    /\ other.pc = "loaded"
    /\ \E quotes \in QuoteScenarios, ext \in Exts, ok \in BOOLEAN :
        \E st \in {run_command_listener(ensure_today_state(other.state, other.now),
                                        << >>, other.now)} :
        \E r \in {run_auto(st, symbolsFile, quotes, ext, ok, other.now, other.seed)} :
        \E c \in {r.call} :
              /\ other' = [other EXCEPT
                             !.pc = "ran", !.state = r.state, !.call = c,
                             !.twice = /\ Delivered(c)
                                       /\ lastOk[c.key] # << >>
                                       /\ SameWindow(lastOk[c.key][2], other.now)]
              /\ lastOk' = IF c.invoked /\ c.ok
                           THEN [lastOk EXCEPT ![c.key] = <<c.text, other.now>>]
                           ELSE lastOk
              /\ eodDelivered' = IF c.key = "close" /\ c.invoked /\ c.ok
                                 THEN eodDelivered + 1 ELSE eodDelivered
    /\ UNCHANGED <<now, pc, mode, hashSeed, deployment, state, file, lastCall, lastFail,
                   seen, disk, handled, probe>>

\* save_json of the second process
OtherSave ==
    /\ other.pc = "ran"
    /\ file' = other.state
    /\ disk' = "ok"
    /\ other' = [other EXCEPT !.pc = "done"]
    /\ UNCHANGED <<now, pc, mode, hashSeed, deployment, state, observed, seen, handled,
                   probe>>

OverlapNext ==
    \/ FirstInvoke
    \/ EnsureTodayState
    \/ RunCommandListener
    \/ RunAuto
    \/ SaveState
    \/ OtherLoad
    \/ OtherRun
    \/ OtherSave

SpecOverlap == OverlapInit /\ [][OverlapNext]_vars

\* ------------------------------------------------------ a damaged state.json
\* Between two invocations something other than the program leaves state.json
\* with bytes that json.load rejects, or with a JSON value that is not an
\* object.
CorruptInit == OverlapInit /\ ~hashRandomized

Corrupt ==
    /\ pc = "idle"
    /\ disk = "ok"
    /\ disk' \in {"unparseable", "not_object"}
    /\ UNCHANGED <<now, pc, mode, hashSeed, deployment, state, file, observed, seen,
                   handled, aside>>

CorruptNext ==
    \/ Corrupt
    \/ Invoke
    \/ EnsureTodayState
    \/ RunCommandListener
    \/ RunAuto
    \/ SaveState

SpecCorrupt == CorruptInit /\ [][CorruptNext]_vars

\* ------------------------------------------------ an exception in run_auto
\* The users send one command; the symbol file is in order when the
\* invocation starts.  run_auto makes calls outside any try block (the read
\* of bist100.txt in load_symbols, the arithmetic and the formatting of the
\* report builders): one of them may raise.
RaiseInit == Init /\ plan.updates > 0 /\ symbolsFile = Universe /\ ~hashRandomized

\* main() line 1096: run_auto raises; nothing in run_auto or main() catches
\* it, so the process ends before the save_json of line 1097
RunAutoRaises ==
    /\ pc = "auto"
    /\ pc' = "crashed"
    /\ UNCHANGED <<now, mode, hashSeed, deployment, state, file, observed, seen, disk,
                   handled, aside>>

RaiseNext ==
    \/ Invoke
    \/ EnsureTodayState
    \/ RunCommandListener
    \/ RunAuto
    \/ RunAutoRaises
    \/ SaveState

SpecRaise == RaiseInit /\ [][RaiseNext]_vars

\* ------------------------------------------------------ save_json in steps
\* save_json as the file system sees it: open(tmp, "w") creates or truncates
\* the temporary file, json.dump writes the text member by member, and
\* os.replace renames the temporary file over state.json in one step.  The
\* process may end at any point in between (killed, out of disk space).
STATE_FILE == <<"state.json">>

\* the keys of the state dict in the order json.dump writes them
FieldOrder ==
    <<"last_update_id", "last_command_reply_ts", "last_id_reply_ts", "day", "watch",
      "sent_pick_message", "last_track_sent_key", "eod_sent_day", "last_auto_sent">>

\* a save_json that writes into state.json itself
tmp_path_in_place(path) == path

\* tmp = path + ".tmp"
tmp_path(path) == path \o <<".tmp">>

\* json.dump(obj): the text, as the members written one after the other
json_dump(obj) == [i \in 1..Len(FieldOrder) |-> <<FieldOrder[i], obj[FieldOrder[i]]>>]

\* what json.load makes of a text: "ok" for a complete object, else it raises
json_status(text) == IF Len(text) = Len(FieldOrder) THEN "ok" ELSE "unparseable"

\* json.load(text) of a complete text
json_load(text) ==
    [k \in {text[i][1] : i \in 1..Len(text)} |->
        text[CHOOSE i \in 1..Len(text) : text[i][1] = k][2]]

SaveInit == OverlapInit /\ ~hashRandomized

\* line 103, open(tmp, "w"): the file named tmp exists and is empty
SaveOpen ==
    /\ pc = "save"
    /\ pc' = "dump"
    /\ probe' = [fn |-> "save_json", path |-> tmp_path(STATE_FILE), text |-> << >>]
    /\ disk' = IF tmp_path(STATE_FILE) = STATE_FILE THEN "unparseable" ELSE disk
    /\ UNCHANGED <<now, mode, hashSeed, deployment, state, file, observed, seen,
                   handled, other>>

\* line 104, json.dump: the next member of the text reaches the open file
SaveDump ==
    /\ pc = "dump"
    /\ Len(probe.text) < Len(FieldOrder)
    /\ probe' = [probe EXCEPT !.text = Append(@, json_dump(state)[Len(@) + 1])]
    /\ IF probe.path = STATE_FILE
       THEN /\ disk' = json_status(probe'.text)
            /\ file' = IF disk' = "ok" THEN json_load(probe'.text) ELSE file
       ELSE UNCHANGED <<file, disk>>
    /\ UNCHANGED <<now, pc, mode, hashSeed, deployment, state, observed, seen,
                   handled, other>>

\* line 105, os.replace(tmp, path): state.json is the finished temporary file
SaveReplace ==
    /\ pc = "dump"
    /\ Len(probe.text) = Len(FieldOrder)
    /\ disk' = json_status(probe.text)
    /\ file' = json_load(probe.text)
    /\ probe' = NoProbe
    /\ lastCall' = NoObs
    /\ pc' = "idle"
    /\ UNCHANGED <<now, mode, hashSeed, deployment, state, lastOk, lastFail,
                   eodDelivered, seen, handled, other>>

\* the process ends inside save_json; what is on the disk stays
SaveCrash ==
    /\ pc \in {"save", "dump"}
    /\ pc' = "crashed"
    /\ lastCall' = NoObs
    /\ UNCHANGED <<now, mode, hashSeed, deployment, state, file, lastOk, lastFail,
                   eodDelivered, seen, disk, handled, aside>>

SaveNext ==
    \/ Invoke
    \/ EnsureTodayState
    \/ RunCommandListener
    \/ RunAuto
    \/ SaveOpen
    \/ SaveDump
    \/ SaveReplace
    \/ SaveCrash

SpecSave == SaveInit /\ [][SaveNext]_vars

\* ----------------------------------------------- an empty symbol universe
\* bist100.txt is missing or empty, the interpreter's hash secret is pinned,
\* and the scheduler starts the process three times within two minutes.
ErrPlan == [starts |-> {<<600, 5>>, <<600, 40>>, <<601, 10>>, <<601, 50>>}, updates |-> 0]

ErrInit ==
    /\ now = 0
    /\ pc = "idle"
    /\ mode = "AUTO"
    /\ hashSeed = 0
    /\ hashRandomized = FALSE
    /\ symbolsFile = {}
    /\ plan = ErrPlan
    /\ state = InitialState
    /\ file = InitialState
    /\ lastCall = NoObs
    /\ lastOk = [k \in Keys |-> << >>]
    /\ lastFail = << >>
    /\ eodDelivered = 0
    /\ seen = {}
    /\ disk = "ok"
    /\ handled = NoneHandled
    /\ other = NoProcess
    /\ probe = NoProbe

SpecErr == ErrInit /\ [][Next]_vars

\* ------------------------------------------------ the reports on their own
\* The per-symbol lines of build_track_message (hourly tracking, pre-close)
\* and of the EOD report, built for every watch list a pick can leave and
\* every answer the quote source can give for each symbol.
NoPrice == -1

\* what yfinance holds for one symbol: a price above and one below the
\* previous close, nothing at all, and a previous close of zero
RawQuotes ==
    { [price |-> 45, prev_close |-> 25], [price |-> 9, prev_close |-> 10],
      [price |-> NoPrice, prev_close |-> NoPrice], [price |-> 11, prev_close |-> 0] }

QuoteFeeds == [Universe -> RawQuotes]

NoQuote == [price |-> NoPrice, prev_close |-> NoPrice]

\* fetch_quote: None when the price is missing, the previous close is
\* missing or zero, or the source raises
fetch_quote(symbol, feed) ==
    IF feed[symbol].price = NoPrice \/ feed[symbol].prev_close \in {NoPrice, 0}
    THEN NoQuote
    ELSE feed[symbol]

\* baseline.get(sym, default)
baseline_get(baseline, sym, default) ==
    IF \E i \in 1..Len(baseline) : baseline[i][1] = sym
    THEN baseline[CHOOSE i \in 1..Len(baseline) : baseline[i][1] = sym][2]
    ELSE default

NoDataLine(sym) ==
    [symbol |-> sym, data |-> FALSE, base |-> NoPrice, price |-> NoPrice, pct |-> << >>]

\* a line "base -> price, pct": pct_from_base is (price - base) / base * 100,
\* kept as <<numerator, denominator>>
QuoteLine(sym, base, q) ==
    [symbol |-> sym, data |-> TRUE, base |-> base, price |-> q.price,
     pct |-> <<(q.price - base) * 100, base>>]

\* a report loop that gives up at the first symbol without a quote
RECURSIVE track_lines_stops_at_gap(_, _, _)
track_lines_stops_at_gap(symbols, baseline, feed) ==
    IF symbols = << >> THEN << >>
    ELSE IF fetch_quote(Head(symbols), feed) = NoQuote THEN << >>
    ELSE <<QuoteLine(Head(symbols), baseline_get(baseline, Head(symbols), NoPrice),
                     fetch_quote(Head(symbols), feed))>>
         \o track_lines_stops_at_gap(Tail(symbols), baseline, feed)

\* build_track_message, lines 761-774
RECURSIVE track_lines(_, _, _)
track_lines(symbols, baseline, feed) ==
    IF symbols = << >> THEN << >>
    ELSE LET sym == Head(symbols)
             q == fetch_quote(sym, feed)
             b == baseline_get(baseline, sym, NoPrice)
             base == IF b = NoPrice \/ b = 0 THEN q.prev_close ELSE b
         IN  <<IF q = NoQuote THEN NoDataLine(sym) ELSE QuoteLine(sym, base, q)>>
             \o track_lines(Tail(symbols), baseline, feed)

\* run_auto, lines 905-917: the lines of the EOD report
RECURSIVE close_lines(_, _, _)
close_lines(symbols_w, baseline, feed) ==
    IF symbols_w = << >> THEN << >>
    ELSE LET sym == Head(symbols_w)
             q == fetch_quote(sym, feed)
             b == baseline_get(baseline, sym, q.prev_close)
             base == IF b = 0 THEN q.prev_close ELSE b
         IN  <<IF q = NoQuote THEN NoDataLine(sym) ELSE QuoteLine(sym, base, q)>>
             \o close_lines(Tail(symbols_w), baseline, feed)

\* run_auto, lines 904-919: hits, the symbols at or above their baseline
close_hits(lines) ==
    Cardinality({i \in 1..Len(lines) : lines[i].data /\ lines[i].pct[1] >= 0})

\* the watch lists try_pick_once can have recorded, the empty one included
Watches ==
    { PickAndRecord(InitialState, quotes, TS(FirstTradingDay, 610, 5)).state.watch :
        quotes \in QuoteScenarios }

ReportInit ==
    /\ ProcessAtRest
    /\ now = TS(FirstTradingDay, 660, 5)
    /\ \E w \in Watches, feed \in QuoteFeeds :
          probe = [fn |-> "watch", watch |-> w, feed |-> feed, lines |-> << >>,
                   hits |-> 0]

\* build_track_message(state), of the hourly tracking and of the pre-close
TrackApply ==
    /\ probe.fn = "watch"
    /\ probe' = [probe EXCEPT
                   !.fn = "track",
                   !.lines = track_lines(probe.watch.symbols, probe.watch.baseline,
                                         probe.feed)]
    /\ UNCHANGED <<now, pc, mode, hashSeed, deployment, state, file, observed, seen,
                   disk, handled, other>>

\* the EOD branch of run_auto
CloseApply ==
    /\ probe.fn = "watch"
    /\ \E lines \in {close_lines(probe.watch.symbols, probe.watch.baseline, probe.feed)} :
          probe' = [probe EXCEPT !.fn = "close", !.lines = lines,
                                 !.hits = close_hits(lines)]
    /\ UNCHANGED <<now, pc, mode, hashSeed, deployment, state, file, observed, seen,
                   disk, handled, other>>

ReportNext == TrackApply \/ CloseApply

SpecReport == ReportInit /\ [][ReportNext]_vars

\* --------------------------------------------------- commands on their own
\* The listener's loop body applied to one command after the other, each
\* with the clock reading of its own int(time.time()): commands of one batch
\* are seconds apart or less, those of two invocations further.  The state
\* dict passes from one command to the next unchanged, in memory within a
\* batch and through state.json between invocations.
MaxCommands == 4

\* seconds between the handling of two successive commands
CommandGaps == {0, 9, 10, 20}

\* message texts, as their words
CommandTexts ==
    { <<"/ping">>, <<"/taipohelp">>, <<"/taipo", "help">>, <<"/id">>, <<"/taipo">>,
      <<"/taipo", "top">>, << >> }

\* the startswith chain of lines 958-986: which branch handles a text
command_of(words) ==
    IF words = << >> THEN "none"
    ELSE IF words[1] = "/ping" THEN "ping"
    ELSE IF \/ words[1] \in {"/help", "/taipohelp"}
            \/ (words[1] = "/taipo" /\ Len(words) >= 2 /\ words[2] = "help")
    THEN "help"
    ELSE IF words[1] = "/id" THEN "id"
    ELSE IF words[1] = "/taipo"
    THEN IF Len(words) >= 2 /\ words[2] \in {"news", "top", "pro"} THEN words[2]
         ELSE "taipo"
    ELSE "none"

\* whether the loop body calls send_message for the command
replied(st, cmd, t) ==
    IF cmd = "none" THEN FALSE
    ELSE IF cmd \in {"ping", "help"} THEN TRUE
    ELSE IF cmd = "id" THEN t - st.last_id_reply_ts >= ID_COOLDOWN_SEC
    ELSE ~(t - st.last_command_reply_ts < REPLY_COOLDOWN_SEC)

\* the log of an observer: the last command, whether it was answered, and
\* when a text starting with /taipo, a command of the /taipo branch and an
\* /id command were last answered
NoCommandYet ==
    [fn |-> "commands", n |-> 0, words |-> << >>, replied |-> FALSE,
     taipoAt |-> NoTime, branchAt |-> NoTime, idAt |-> NoTime]

CommandsInit ==
    /\ ProcessAtRest
    /\ now = TS(FirstTradingDay, 660, 5)
    /\ probe = NoCommandYet

HandleCommand ==
    /\ probe.n < MaxCommands
    /\ \E words \in CommandTexts, gap \in CommandGaps :
        \E cmd \in {command_of(words)} :
        \E answered \in {replied(state, cmd, now + gap)} :
          /\ now' = now + gap
          /\ state' = handle_update(state, [update_id |-> probe.n + 1, cmd |-> cmd],
                                    now + gap)
          /\ probe' = [probe EXCEPT
                         !.n = @ + 1,
                         !.words = words,
                         !.replied = answered,
                         !.taipoAt = IF answered /\ words # << >> /\ words[1] = "/taipo"
                                     THEN now + gap ELSE @,
                         !.branchAt = IF answered /\ cmd \in {"taipo", "news", "top", "pro"}
                                      THEN now + gap ELSE @,
                         !.idAt = IF answered /\ cmd = "id" THEN now + gap ELSE @]
    /\ UNCHANGED <<pc, mode, hashSeed, deployment, file, observed, seen, disk, handled,
                   other>>

SpecCommands == CommandsInit /\ [][HandleCommand]_vars

\* ---------------------------------------- ensure_today_state on the whole dict
\* The state dict with all its keys, news_seen and movers_cache included, as
\* a function from the keys it has to their values: the dicts the program
\* saves, and the {} that load_json returns for an unreadable state.json.
EmptyCache == [ts |-> 0, data |-> << >>]

\* the per-day fields as lines 279-285 write them
FreshDay(t) ==
    [day |-> today_str_tr(t), watch |-> EmptyWatch, sent_pick_message |-> FALSE,
     last_track_sent_key |-> << >>, movers_cache |-> EmptyCache, eod_sent_day |-> NoDay,
     last_auto_sent |-> [k \in Keys |-> NoRec]]

\* an ensure_today_state that empties news_seen with the per-day fields
ensure_today_state_full_clears_news(d, t) ==
    LET defaults == [news_seen |-> << >>, movers_cache |-> EmptyCache,
                     eod_sent_day |-> NoDay, last_auto_sent |-> [k \in Keys |-> NoRec]]
        d1 == d @@ defaults
    IN  IF "day" \in DOMAIN d1 /\ d1["day"] = today_str_tr(t) THEN d1
        ELSE [news_seen |-> << >>] @@ FreshDay(t) @@ d1

\* ensure_today_state, lines 268-286: the keys that are missing get their
\* defaults, and on another day the per-day keys are written anew
ensure_today_state_full(d, t) ==
    LET defaults == [news_seen |-> << >>, movers_cache |-> EmptyCache,
                     eod_sent_day |-> NoDay, last_auto_sent |-> [k \in Keys |-> NoRec]]
        d1 == d @@ defaults
    IN  IF "day" \in DOMAIN d1 /\ d1["day"] = today_str_tr(t) THEN d1
        ELSE FreshDay(t) @@ d1

\* snapshots save_json has written: cursor and cooldown stamps of earlier
\* commands, a day, a watch list with its flag, news already shown, movers
StoredDicts ==
    { [last_update_id |-> c[1], last_command_reply_ts |-> c[2], last_id_reply_ts |-> c[3],
       day |-> day, watch |-> w, sent_pick_message |-> w.symbols # << >>,
       last_track_sent_key |-> key, news_seen |-> news, movers_cache |-> cache,
       eod_sent_day |-> eod, last_auto_sent |-> [k \in Keys |-> NoRec]] :
        c \in {<<0, 0, 0>>, <<7, 39000, 39020>>},
        day \in {NoDay} \cup (0..MaxDay),
        w \in Watches,
        key \in {<< >>, <<0, 660>>},
        news \in {<< >>, <<<<"title", 39000>>>>},
        cache \in {EmptyCache, [ts |-> 39000, data |-> <<"movers">>]},
        eod \in {NoDay, 0} }

RolloverInit ==
    /\ ProcessAtRest
    /\ now \in {TS(d, 610, 5) : d \in 0..MaxDay}
    /\ \E d \in StoredDicts \cup {<< >>} :
          probe = [fn |-> "stored", dict |-> d, result |-> d]

\* state = ensure_today_state(state)
RolloverApply ==
    /\ probe.fn = "stored"
    /\ probe' = [probe EXCEPT !.fn = "ensured",
                              !.result = ensure_today_state_full(probe.dict, now)]
    /\ UNCHANGED <<now, pc, mode, hashSeed, deployment, state, file, observed, seen,
                   disk, handled, other>>

SpecRollover == RolloverInit /\ [][RolloverApply]_vars

\* =================================================================== claims
Today == today_str_tr(now)

\* C1: after an AUTO invocation inside the EOD window of a trading day (the
\* symbol file being in order), exactly one EOD notification has been
\* delivered that day and state.json records the EOD as sent, however many
\* invocations fell inside the window.
C1_EodExactlyOnce ==
    (pc = "idle" /\ mode = "AUTO" /\ symbolsFile # {} /\ is_close_report_time_now(now))
        => (eodDelivered = 1 /\ file.eod_sent_day = Today)

\* C2: when the transport fails for the EOD notification, the invocation
\* does not mark the day's EOD as sent.
C2_FailedEodNotMarked ==
    (pc = "save" /\ lastCall.key = "close" /\ lastCall.invoked /\ ~lastCall.ok)
        => state.eod_sent_day # Today

\* C3: a call whose text equals the text last delivered under its key, less
\* than the cooldown after that delivery, does not invoke the transport; a
\* call whose text differs from the delivered one invokes it.
C3_DedupCorrect ==
    pc = "save" =>
        /\ lastCall.dup => ~lastCall.invoked
        /\ lastCall.differs => lastCall.invoked

\* C4: a failed send leaves the key's dedup record as it was, a successful
\* send writes ts and hash together, a suppressed call writes nothing, and
\* the text of a failed send is attempted again by the next call.
C4_FailedSendKeepsRecord ==
    (pc = "save" /\ lastCall.key # "") =>
        /\ (lastCall.invoked /\ ~lastCall.ok)
              => state.last_auto_sent[lastCall.key] = lastCall.prev
        /\ (lastCall.invoked /\ lastCall.ok)
              => state.last_auto_sent[lastCall.key] =
                    [ts |-> now, hash |-> hash_text(lastCall.text, hashSeed)]
        /\ ~lastCall.invoked => state.last_auto_sent[lastCall.key] = lastCall.prev
        /\ lastCall.retry => lastCall.invoked

\* a call repeats the text of a failed send and reaches the transport
C4_Witness ==
    pc = "save" /\ lastCall.retry /\ lastCall.invoked

\* C5: the hash a process computes for a text equals the hash an earlier
\* process stored in last_auto_sent when it delivered the same text.
C5_HashStableAcrossProcesses ==
    (pc = "save" /\ lastCall.same) => lastCall.prev.hash = hash_text(lastCall.text, hashSeed)

\* C6: on a trading day a driver that starts the process every five minutes,
\* from any offset, finds every phase active at one start at least.
C6_EveryPhaseFound ==
    (DriverDayOver /\ is_weekday_tr(now)) => Phases \subseteq seen

\* C7: run_auto in the pick window, entered with sent_pick_message already
\* set, leaves the watch list, baselines, picked_at, band_used and the flag
\* as they are and sends no pick notification; with a symbol file in order
\* it changes nothing and sends nothing.
C7_PickIdempotent ==
    [][(pc = "auto" /\ state.sent_pick_message /\ is_pick_trigger_time_now(now))
          => /\ state'.watch = state.watch
             /\ state'.sent_pick_message
             /\ lastCall'.key # "pick"
             /\ symbolsFile # {} => (state' = state /\ lastCall'.key = "")]_vars

\* a second AUTO invocation has run inside the pick window of a day whose
\* pick is already in state.json
C7_Witness ==
    /\ pc = "save" /\ mode = "AUTO" /\ symbolsFile # {}
    /\ is_pick_trigger_time_now(now)
    /\ file.day = Today /\ file.sent_pick_message /\ file.watch.symbols # << >>

PhaseFlagsKept(s, t) ==
    s.day = t.day =>
        /\ s.sent_pick_message => t.sent_pick_message
        /\ (s.eod_sent_day = s.day /\ s.day # NoDay) => t.eod_sent_day = t.day

PhaseFlagCleared(s, t) ==
    \/ s.sent_pick_message /\ ~t.sent_pick_message
    \/ s.eod_sent_day = s.day /\ s.eod_sent_day # NoDay /\ t.eod_sent_day # s.eod_sent_day

\* C8: while the day stays the same no step of any invocation, AUTO or
\* COMMAND, clears sent_pick_message or the day's eod_sent_day, in memory or
\* in state.json; a step that clears one is ensure_today_state on a new date.
C8_PhaseFlagsNeverCleared ==
    [][/\ PhaseFlagsKept(state, state')
       /\ PhaseFlagsKept(file, file')
       /\ PhaseFlagCleared(state, state') => (pc = "loaded" /\ state.day # Today)]_vars

\* a COMMAND invocation has handled an update on a day whose pick was made
C8_Witness ==
    /\ pc = "save" /\ mode = "COMMAND"
    /\ state.last_update_id > file.last_update_id
    /\ file.day = Today /\ file.sent_pick_message /\ state.sent_pick_message

\* C9: once the watch list is set, no step on the same day changes the
\* symbols, the baselines, picked_at or band_used, in memory or in
\* state.json.
C9_BaselineImmutable ==
    [][/\ (state.watch.symbols # << >> /\ state'.day = state.day)
             => state'.watch = state.watch
       /\ (file.watch.symbols # << >> /\ file'.day = file.day)
             => file'.watch = file.watch]_vars

\* the EOD report has run on a day with a watch list
C9_Witness ==
    pc = "save" /\ lastCall.key = "close" /\ state.watch.symbols # << >>

\* C10: when the command listener is about to run, and from then on, the
\* in-memory day is today; if state.json held another day, the watch list,
\* baselines, picked_at, band_used, sent_pick_message, last_track_sent_key
\* and eod_sent_day are already reset at that point.
C10_RolloverFirst ==
    /\ pc \in {"listen", "auto", "save"} => state.day = Today
    /\ (pc = "listen" /\ file.day # Today)
          => /\ state.watch = EmptyWatch
             /\ ~state.sent_pick_message
             /\ state.last_track_sent_key = << >>
             /\ state.eod_sent_day = NoDay

\* the listener is about to run on a new day after a day with a pick
C10_Witness ==
    /\ pc = "listen" /\ file.day # Today
    /\ file.watch.symbols # << >> /\ file.sent_pick_message

\* ------------------------------------------------------------- the picker
\* the positions of the positive quotes whose change_pct lies in [lo, hi]
PoolOf(quotes, lo, hi) ==
    { i \in 1..Len(quotes) :
        quotes[i].change_pct > 0 /\ lo <= quotes[i].change_pct /\ quotes[i].change_pct <= hi }

\* the bands of AUTO_BAND_STEPS, by position, whose pool has n members
ReachingBands(quotes, n) ==
    { b \in 1..Len(AUTO_BAND_STEPS) :
        Cardinality(PoolOf(quotes, AUTO_BAND_STEPS[b][1], AUTO_BAND_STEPS[b][2])) >= n }

\* C11: the band the picker returns is the first band of AUTO_BAND_STEPS, in
\* list order, whose pool of positive quotes has at least n members; when no
\* band has, no band is returned.
C11_FirstReachingBand ==
    probe.fn = "picked" =>
        LET reach == ReachingBands(probe.quotes, probe.n)
        IN  IF reach = {} THEN probe.band = << >>
            ELSE \E b \in reach :
                    /\ \A c \in reach : b <= c
                    /\ probe.band = AUTO_BAND_STEPS[b]

\* the third band is returned although the widest band holds more quotes
C11_Witness ==
    /\ probe.fn = "picked" /\ probe.band = <<40, 120>>
    /\ Cardinality(PoolOf(probe.quotes, 0, 300)) > Cardinality(PoolOf(probe.quotes, 40, 120))

\* C12: when the picker returns a band the selection has exactly n quotes,
\* otherwise the selection is empty; the watch list try_pick_once records has
\* exactly PICK_COUNT symbols and baselines, and without a pick it stays empty.
C12_BasketSize ==
    /\ probe.fn = "picked" =>
          IF probe.band # << >> THEN Len(probe.picks) = probe.n ELSE probe.picks = << >>
    /\ probe.fn = "tried" =>
          IF probe.picks # << >>
          THEN /\ Len(probe.picks) = PICK_COUNT
               /\ Len(state.watch.symbols) = PICK_COUNT
               /\ Len(state.watch.baseline) = PICK_COUNT
               /\ state.sent_pick_message
          ELSE state.watch = EmptyWatch /\ probe.band = << >>

\* try_pick_once has recorded a watch list out of a pool larger than it
C12_Witness ==
    /\ probe.fn = "tried" /\ Len(state.watch.symbols) = PICK_COUNT
    /\ Cardinality(PoolOf(probe.quotes, probe.band[1], probe.band[2])) > PICK_COUNT

RankAt(quotes, i) ==
    (IF quotes[i].vol_ratio = NoVol THEN 0 ELSE quotes[i].vol_ratio) * 10
        + quotes[i].change_pct

\* the quote at position j is ranked before the one at position i
RankedBefore(quotes, j, i) ==
    \/ RankAt(quotes, j) > RankAt(quotes, i)
    \/ RankAt(quotes, j) = RankAt(quotes, i) /\ j < i

\* C13: the k-th quote of the selection is the quote of the chosen band's
\* pool that exactly k - 1 quotes of the pool are ranked before, the rank
\* being vol_ratio (0 when absent) * 10 + change_pct, higher first, and among
\* equal ranks the earlier input first.
C13_TopByRank ==
    (probe.fn = "picked" /\ probe.band # << >>) =>
        LET pool == PoolOf(probe.quotes, probe.band[1], probe.band[2])
        IN  \A k \in 1..Len(probe.picks) :
                \E i \in pool :
                    /\ probe.picks[k] = probe.quotes[i]
                    /\ Cardinality({ j \in pool : RankedBefore(probe.quotes, j, i) }) = k - 1

\* A(0.5, vr 1.0), B(0.8, vr 2.0), C(1.1, vr 0.5) with n = 2 gives [B, A] in
\* the band (0.4, 0.9)
C13_Witness ==
    /\ probe.fn = "picked" /\ probe.n = 2
    /\ probe.quotes = << Q("A", 10, 50, 100), Q("B", 20, 80, 200), Q("C", 30, 110, 50) >>
    /\ probe.picks = << Q("B", 20, 80, 200), Q("A", 10, 50, 100) >>
    /\ probe.band = <<40, 90>>

\* C14: when at least n quotes have a change_pct above 0 and at most 3.0, the
\* picker returns a selection of n quotes.
C14_Availability ==
    (/\ probe.fn = "picked"
     /\ Cardinality({ i \in 1..Len(probe.quotes) :
                        0 < probe.quotes[i].change_pct /\ probe.quotes[i].change_pct <= 300 })
            >= probe.n)
        => (probe.picks # << >> /\ Len(probe.picks) = probe.n)

\* only the widest band reaches n, through a quote on its upper edge
C14_Witness ==
    /\ probe.fn = "picked" /\ probe.band = <<0, 300>> /\ probe.n >= 2
    /\ \E k \in 1..Len(probe.picks) : probe.picks[k].change_pct = 300
    /\ Cardinality(PoolOf(probe.quotes, 10, 200)) < probe.n

\* ------------------------------------------------- overlapping invocations
\* C15: when two invocations overlap in a phase window (the second loads
\* state.json before the first saves it), the pick, the hourly track and the
\* EOD notification of that window are delivered by one of them at most.
C15_OverlapSendsOnce ==
    /\ ~other.twice
    /\ ~(/\ pc = "save" /\ other.pc \in {"ran", "done"}
         /\ SameWindow(now, other.now)
         /\ Delivered(lastCall) /\ Delivered(other.call)
         /\ lastCall.key = other.call.key)

\* -------------------------------------------------------- non-trading days
\* day 0 being the weekday FirstWeekday (Monday is 0), t falls on a weekend
SaturdayOrSunday(t) == (FirstWeekday + t \div DaySeconds) % 7 \in {5, 6}

\* the minutes of a day at which a phase predicate is true on a trading day
PhaseMinutes == {600, 610, 1050, 1090} \cup {h * 60 : h \in 11..17}

\* C16: on a Saturday or Sunday no phase predicate (open, pick, track,
\* pre-close, EOD) is true, at the moment the process reads the clock and at
\* the minutes of that day that are phase windows on a trading day, and
\* run_auto sends no phase notification and leaves the watch list,
\* sent_pick_message, last_track_sent_key and eod_sent_day as they are.
C16_WeekendIdle ==
    [][(pc = "auto" /\ SaturdayOrSunday(now))
          => /\ ActivePhases(now) = {}
             /\ \A m \in PhaseMinutes, sec \in {0, 59} :
                   ActivePhases(TS(now \div DaySeconds, m, sec)) = {}
             /\ lastCall'.key \in {"", "err"}
             /\ state'.watch = state.watch
             /\ state'.sent_pick_message = state.sent_pick_message
             /\ state'.last_track_sent_key = state.last_track_sent_key
             /\ state'.eod_sent_day = state.eod_sent_day]_vars

\* run_auto has run at 10:10 of a non-trading day with a symbol file in order
C16_Witness ==
    /\ pc = "save" /\ mode = "AUTO" /\ symbolsFile # {}
    /\ SaturdayOrSunday(now) /\ Hour(now) = 10 /\ Minute(now) = 10
    /\ lastCall.key = ""

\* ----------------------------------------------------------------- commands
Ledger(st) ==
    <<st.day, st.watch, st.sent_pick_message, st.last_track_sent_key, st.eod_sent_day,
      st.last_auto_sent>>

\* C17: whatever commands arrive, run_command_listener leaves day, the watch
\* list (symbols, baseline, picked_at, band_used), sent_pick_message,
\* last_track_sent_key, eod_sent_day and last_auto_sent as they are.
C17_CommandsKeepLedger ==
    [][pc = "listen" => Ledger(state') = Ledger(state)]_vars

\* a /taipo command has been answered on a day whose watch list is set
C17_Witness ==
    /\ pc = "auto"
    /\ state.last_update_id > file.last_update_id
    /\ state.last_command_reply_ts = now
    /\ state.watch.symbols # << >> /\ state.sent_pick_message

\* C18: over invocations that run one after the other, each to its end, an
\* update id is handled by one invocation at most, and the cursor
\* last_update_id in state.json never decreases.
C18_UpdatesHandledOnce ==
    [][/\ \A u \in DOMAIN handled : handled'[u] <= 1
       /\ file'.last_update_id >= file.last_update_id
       /\ pc = "listen" => state'.last_update_id >= state.last_update_id]_vars

\* an update was handled by an earlier invocation, and the listener of a
\* later one has run
C18_Witness ==
    /\ pc = "auto" /\ file.last_update_id >= 1
    /\ handled[1] = 1

\* --------------------------------------------------------------------- news
\* C19: a title selected by pick_new_news_for_message at time t is not
\* selected, in any casing, by a later call made before t + 7 days.
C19_NewsOnceInRetention ==
    probe.fn = "news" =>
        \A i \in 1..Len(probe.selected) :
            LET t == probe.prev[probe.selected[i][1]]
            IN  t = NoTime \/ now >= t + 7 * DaySeconds

\* a call made exactly 7 days after a title was selected is offered the
\* title, in another casing, and does not select it
C19_Witness ==
    /\ probe.fn = "news"
    /\ \E i \in 1..Len(probe.items) :
          /\ probe.prev[probe.items[i][1]] # NoTime
          /\ now = probe.prev[probe.items[i][1]] + 7 * DaySeconds
          /\ probe.items[i][2] = 1
          /\ \A k \in 1..Len(probe.selected) : probe.selected[k] # probe.items[i]

\* ------------------------------------------------------ a damaged state.json
\* C20: an invocation that finds state.json unreadable or malformed does not
\* crash: it goes on from an empty state of today (no watch list, no phase
\* flag set, day = today) and at its end state.json holds a valid snapshot.
C20_CorruptionRecovered ==
    [][/\ pc' # "crashed"
       /\ (pc = "loaded" /\ disk # "ok")
             => /\ pc' = "listen"
                /\ state'.day = Today
                /\ state'.watch = EmptyWatch
                /\ ~state'.sent_pick_message
                /\ state'.last_track_sent_key = << >>
                /\ state'.eod_sent_day = NoDay
       /\ pc = "save" => (disk' = "ok" /\ file'.day = Today)]_vars

\* ------------------------------------------------- an exception in run_auto
\* C21: when run_auto raises, the invocation still persists what was changed
\* outside the failing phase: state.json holds the command cursor
\* last_update_id that run_command_listener advanced in the same invocation.
C21_RaiseKeepsCursor ==
    [][(pc = "auto" /\ pc' = "crashed") => file'.last_update_id = state.last_update_id]_vars

\* ------------------------------------------------------ save_json in steps
\* C22: wherever save_json stops, state.json holds a complete snapshot, the
\* previous one or the new one, and the next invocation loads a complete
\* snapshot, never a partly written one.
C22_AtomicSnapshot ==
    [][/\ pc \in {"save", "dump"} => (disk' = "ok" /\ (file' = file \/ file' = state))
       /\ pc' = "loaded" => (disk = "ok" /\ state' = file)]_vars

C22_Witness ==
    /\ pc = "loaded"
    /\ probe.fn = "save_json"
    /\ Len(probe.text) \in 4..(Len(FieldOrder) - 1)
    /\ state = file
    /\ state.day = NoDay
    /\ probe.text[4][2] = Today

\* ----------------------------------------------- an empty symbol universe
\* C23: with an empty symbol universe, an invocation run less than 300
\* seconds after a delivered diagnostic notification does not deliver
\* another one.
C23_SingleDiagnostic ==
    [][(/\ pc = "auto"
        /\ symbolsFile = {}
        /\ lastOk["err"] # << >>
        /\ now - lastOk["err"][2] < 300)
          => ~(lastCall'.key = "err" /\ lastCall'.invoked /\ lastCall'.ok)]_vars

\* ------------------------------------------------ the reports on their own
\* the quote source has a price and a previous close other than zero
HasFreshQuote(sym) ==
    probe.feed[sym].price # NoPrice /\ probe.feed[sym].prev_close \notin {NoPrice, 0}

\* C24: a tracking, pre-close or EOD report has one line per watched symbol,
\* in the order of the watch list: a no-data line for a symbol the quote
\* source gives no fresh quote for, and for every other symbol a line with
\* its baseline and its fresh price; the EOD count is that of the reported
\* symbols at or above their baseline.
C24_NoDataLines ==
    probe.fn \in {"track", "close"} =>
        /\ Len(probe.lines) = Len(probe.watch.symbols)
        /\ \A i \in 1..Len(probe.lines) :
              LET sym == probe.watch.symbols[i]
                  line == probe.lines[i]
              IN  /\ line.symbol = sym
                  /\ line.data = HasFreshQuote(sym)
                  /\ line.data => /\ line.price = probe.feed[sym].price
                                  /\ <<sym, line.base>> = probe.watch.baseline[i]
        /\ probe.fn = "close" =>
              probe.hits = Cardinality({i \in 1..Len(probe.lines) :
                                           /\ HasFreshQuote(probe.watch.symbols[i])
                                           /\ probe.feed[probe.watch.symbols[i]].price
                                                 >= probe.watch.baseline[i][2]})

C24_Witness ==
    /\ probe.fn = "track"
    /\ Len(probe.lines) = PICK_COUNT
    /\ ~probe.lines[1].data
    /\ probe.lines[2].data
    /\ ~probe.lines[3].data

\* ------------------------------------------------------------ send failures
\* C25: when the transport fails on the pick or on the hourly-track
\* notification, the phase is not marked as done: sent_pick_message stays
\* unset, respectively last_track_sent_key is not the current minute, so the
\* next invocation inside the window tries again.
C25_FailedSendNotMarked ==
    (pc = "save" /\ lastCall.invoked /\ ~lastCall.ok) =>
        /\ lastCall.key = "pick" => ~state.sent_pick_message
        /\ lastCall.key = "track" => state.last_track_sent_key # now_key_minute(now)

\* --------------------------------------------------------------- empty picks
\* C26: an invocation inside the pick window whose scan returns no quotes,
\* or whose picker finds no band with a full basket, leaves every field of
\* the state as it was, and from that state try_pick_once makes the pick as
\* soon as a scan yields a full basket.
C26_EmptyPickRetried ==
    [][(/\ pc = "auto"
        /\ symbolsFile # {}
        /\ is_pick_trigger_time_now(now)
        /\ ~state.sent_pick_message
        /\ lastCall'.key # "pick")
          => /\ state' = state
             /\ \A quotes \in QuoteScenarios :
                   LET r == pick_breakouts_with_auto_band(quotes, PICK_COUNT)
                   IN  (r.band # << >> /\ Len(r.picks) >= PICK_COUNT)
                          => try_pick_once(state', symbolsFile, quotes, now).picks
                                = r.picks]_vars

C26_Witness ==
    /\ pc = "save"
    /\ mode = "AUTO"
    /\ symbolsFile # {}
    /\ is_pick_trigger_time_now(now)
    /\ now % 60 = 40
    /\ file.day = Today
    /\ lastCall.key = ""
    /\ ~state.sent_pick_message
    /\ state.watch = EmptyWatch

\* ---------------------------------------------------------- hourly tracking
\* C27: an invocation calls the transport for a track notification only when
\* the watch list is not empty and no track notification was delivered
\* earlier in the same tracking minute: sequential invocations inside one
\* tracking window deliver at most one.
C27_TrackOncePerWindow ==
    [][(pc = "auto" /\ lastCall'.key = "track" /\ lastCall'.invoked)
          => /\ state.watch.symbols # << >>
             /\ is_track_time_now(now)
             /\ ~(lastOk["track"] # << >> /\ SameWindow(lastOk["track"][2], now))]_vars

C27_Witness ==
    /\ pc = "save"
    /\ mode = "AUTO"
    /\ is_track_time_now(now)
    /\ state.watch.symbols # << >>
    /\ lastOk["track"] # << >>
    /\ lastOk["track"][2] < now
    /\ SameWindow(lastOk["track"][2], now)
    /\ lastCall.key = ""

\* ------------------------------------------------------------ the watch list
\* C28: in memory and in state.json the watch list holds either no symbol or
\* exactly PICK_COUNT symbols, all different, and while the day stays the
\* same no symbol that is on the list leaves it.
C28_WatchBounds ==
    [][/\ \A w \in {state'.watch, file'.watch} :
             /\ Len(w.symbols) \in {0, PICK_COUNT}
             /\ Cardinality({w.symbols[i] : i \in 1..Len(w.symbols)}) = Len(w.symbols)
       /\ state'.day = state.day =>
             {state.watch.symbols[i] : i \in 1..Len(state.watch.symbols)}
                \subseteq {state'.watch.symbols[i] : i \in 1..Len(state'.watch.symbols)}
       /\ file'.day = file.day =>
             {file.watch.symbols[i] : i \in 1..Len(file.watch.symbols)}
                \subseteq {file'.watch.symbols[i] : i \in 1..Len(file'.watch.symbols)}]_vars

C28_Witness ==
    /\ pc = "save"
    /\ is_track_time_now(now)
    /\ Len(state.watch.symbols) = PICK_COUNT
    /\ file.watch = state.watch
    /\ file.day = Today

\* ---------------------------------------------------- one phase per invocation
\* C29: whatever the scan, the network and the transport answer, run_auto
\* makes at most one send_auto_deduped call, hence at most one call of the
\* transport: the statements after the first branch taken are not executed,
\* and the state and the call are those of that branch alone.
C29_OneCallPerInvocation ==
    pc = "auto" =>
        \A quotes \in QuoteScenarios, ext \in Exts, ok \in BOOLEAN :
            \A f \in {run_auto_statements(state, symbolsFile, quotes, ext, ok, now,
                                          hashSeed)} :
            \A r \in {run_auto(state, symbolsFile, quotes, ext, ok, now, hashSeed)} :
                /\ Len(f.calls) <= 1
                /\ f.state = r.state
                /\ f.calls = IF r.call.key = "" THEN << >> ELSE <<r.call>>

C29_Witness ==
    /\ pc = "save"
    /\ mode = "AUTO"
    /\ symbolsFile = {}
    /\ is_open_report_time_now(now)
    /\ lastCall.key = "err"
    /\ lastCall.invoked
    /\ state.last_auto_sent["open"] = NoRec

C31_FlagMatchesWatch ==
    \A s \in {state, file} :
        /\ s.sent_pick_message <=> s.watch.symbols # << >>
        /\ {s.watch.baseline[i][1] : i \in 1..Len(s.watch.baseline)}
              = {s.watch.symbols[i] : i \in 1..Len(s.watch.symbols)}

C31_Witness ==
    /\ pc = "listen"
    /\ file.day # Today
    /\ file.sent_pick_message
    /\ Len(file.watch.baseline) = PICK_COUNT
    /\ state.day = Today
    /\ ~state.sent_pick_message
    /\ state.watch = EmptyWatch

\* ------------------------------------------------------------- day rollover
\* what state.get(key, default) reads
Get(d, key, default) == IF key \in DOMAIN d THEN d[key] ELSE default

\* C32: ensure_today_state leaves last_update_id, last_command_reply_ts,
\* last_id_reply_ts and news_seen as they read before, on a date change too;
\* when the stored day is today it changes no key the dict has; and on the
\* fields of the process state it is the ensure_today_state of the
\* invocations.
C32_RolloverKeepsRest ==
    probe.fn = "ensured" =>
        /\ \A key \in {"last_update_id", "last_command_reply_ts", "last_id_reply_ts"} :
              Get(probe.result, key, 0) = Get(probe.dict, key, 0)
        /\ Get(probe.result, "news_seen", << >>) = Get(probe.dict, "news_seen", << >>)
        /\ Get(probe.dict, "day", NoDay) = Today
              => \A key \in DOMAIN probe.dict : probe.result[key] = probe.dict[key]
        /\ probe.dict # << >>
              => \A key \in DOMAIN InitialState :
                    probe.result[key]
                      = ensure_today_state([k \in DOMAIN InitialState |-> probe.dict[k]],
                                           now)[key]

C32_Witness ==
    /\ probe.fn = "ensured"
    /\ probe.dict # << >>
    /\ probe.dict["day"] \notin {NoDay, Today}
    /\ probe.dict["news_seen"] # << >>
    /\ probe.dict["last_update_id"] = 7
    /\ probe.dict["sent_pick_message"]
    /\ ~probe.result["sent_pick_message"]
    /\ probe.result["news_seen"] = probe.dict["news_seen"]

\* ------------------------------------------------------ the fallback band
\* C33: the fallback step of the picker returns a selection only for quotes
\* of which some band of AUTO_BAND_STEPS has at least n in its pool, so it
\* returns none whenever the scan reaches it, and the picker's selection is
\* non-empty exactly when a band of AUTO_BAND_STEPS reaches n.
C33_FallbackIsIdle ==
    probe.fn = "picked" =>
        LET IsPos(q) == q.change_pct > 0
            fb == fallback_step(SelectSeq(probe.quotes, IsPos), probe.n)
            reach == ReachingBands(probe.quotes, probe.n)
        IN  /\ fb.picks # << >> => reach # {}
            /\ reach = {} => fb = [picks |-> << >>, band |-> << >>]
            /\ probe.picks # << >> <=> reach # {}

\* the scan has reached the fallback with quotes inside its band, too few
C33_Witness ==
    /\ probe.fn = "picked"
    /\ probe.n = 2
    /\ ReachingBands(probe.quotes, probe.n) = {}
    /\ Cardinality(PoolOf(probe.quotes, 0, 300)) = 1
    /\ probe.picks = << >>

====
